---- MODULE Spec2Model ----
(***************************************************************************)
(* Model of the air-pollution dashboard script src/app.py.                 *)
(*                                                                         *)
(* The script is run top to bottom: it loads two CSV files (lines 9-70),   *)
(* derives the metric options (lines 73-100) and renders the one page the  *)
(* navigation selects (lines 275-911) from the widget values.  Every       *)
(* interaction re-runs the script; the two loads are cached.               *)
(*                                                                         *)
(* Column names and labels are sequences of one-character strings, so that *)
(* str.strip, str.lower, str.replace and the `in` substring test are       *)
(* modelled character by character.  Numeric cells are exact rationals     *)
(* [n, d] (d > 0, lowest terms); NaN is [n |-> 0, d |-> 0].  Floating      *)
(* point rounding error is not modelled.  Text cells are strings, the      *)
(* missing text cell is NaS.                                               *)
(***************************************************************************)
EXTENDS Integers, Sequences, FiniteSets, TLC

VARIABLES
    base_file,      \* data/raw/global_air_pollution.csv as it is on disk
    pm25_file,      \* data/raw/pm25-air-pollution.csv as it is on disk
    pc,             \* position of the script
    base_df,        \* module-level base_df (line 69)
    pm25_df,        \* module-level pm25_df (line 70)
    metric_options, \* module-level metric_options (line 100)
    view            \* what the last page render showed and computed

vars == <<base_file, pm25_file, pc, base_df, pm25_df, metric_options, view>>

-----------------------------------------------------------------------------
(* Bounds of the model *)

MaxCols == 2
MaxRows == 3
MaxAppRows == 2
MaxNameLen == 3
MaxPmRows == 3

-----------------------------------------------------------------------------
(* Characters and names *)

UpperChars == <<"A","B","C","D","E","F","G","H","I","J","K","L","M",
                "N","O","P","Q","R","S","T","U","V","W","X","Y","Z">>
LowerChars == <<"a","b","c","d","e","f","g","h","i","j","k","l","m",
                "n","o","p","q","r","s","t","u","v","w","x","y","z">>

IsSpace(ch) == ch \in {" ", "\t"}

LowerChar(ch) ==
    IF \E i \in 1..26 : UpperChars[i] = ch
    THEN LowerChars[CHOOSE i \in 1..26 : UpperChars[i] = ch]
    ELSE ch

UpperChar(ch) ==
    IF \E i \in 1..26 : LowerChars[i] = ch
    THEN UpperChars[CHOOSE i \in 1..26 : LowerChars[i] = ch]
    ELSE ch

IsLetter(ch) == \E i \in 1..26 : UpperChars[i] = ch \/ LowerChars[i] = ch

\* sub in s  (Python substring test)
Contains(sub, s) ==
    \E i \in 0..(Len(s) - Len(sub)) : SubSeq(s, i + 1, i + Len(sub)) = sub

\* s.endswith(suf)
EndsWith(s, suf) ==
    /\ Len(suf) <= Len(s)
    /\ SubSeq(s, Len(s) - Len(suf) + 1, Len(s)) = suf

\* str.lstrip(): leading whitespace only
StrLStrip(s) ==
    LET keep == {i \in 1..Len(s) : ~IsSpace(s[i])}
    IN  IF keep = {} THEN <<>>
        ELSE SubSeq(s, CHOOSE i \in keep : \A j \in keep : i <= j, Len(s))

\* str.strip()
StrStrip(s) ==
    LET keep == {i \in 1..Len(s) : ~IsSpace(s[i])}
    IN  IF keep = {} THEN <<>>
        ELSE LET lo == CHOOSE i \in keep : \A j \in keep : i <= j
                 hi == CHOOSE i \in keep : \A j \in keep : j <= i
             IN  SubSeq(s, lo, hi)

\* str.lower()
StrLower(s) == [i \in 1..Len(s) |-> LowerChar(s[i])]

\* str.replace(old, new) for a one-character old and a one-character new
StrReplaceChar(s, old, new) == [i \in 1..Len(s) |-> IF s[i] = old THEN new ELSE s[i]]

\* str.replace(old, "") for a one-character old
StrRemoveChar(s, old) == SelectSeq(s, LAMBDA ch : ch # old)

\* str.replace(old, new) for a multi-character old and new = ""
RECURSIVE StrRemove(_, _)
StrRemove(s, old) ==
    IF Len(s) < Len(old) \/ Len(old) = 0 THEN s
    ELSE IF SubSeq(s, 1, Len(old)) = old
         THEN StrRemove(SubSeq(s, Len(old) + 1, Len(s)), old)
         ELSE <<Head(s)>> \o StrRemove(Tail(s), old)

\* str.title(): first letter of every run of letters uppercased, the rest lowercased
StrTitle(s) ==
    [i \in 1..Len(s) |->
        IF i = 1 \/ ~IsLetter(s[i - 1]) THEN UpperChar(s[i]) ELSE LowerChar(s[i])]

\* Canonical column names
Names ==
    [ country |-> <<"c","o","u","n","t","r","y">>,
      aqi_value |-> <<"a","q","i","_","v","a","l","u","e">>,
      aqi_category |-> <<"a","q","i","_","c","a","t","e","g","o","r","y">>,
      pm25_aqi_value |-> <<"p","m","2","5","_","a","q","i","_","v","a","l","u","e">>,
      pm10_aqi_value |-> <<"p","m","1","0","_","a","q","i","_","v","a","l","u","e">>,
      no2_aqi_value |-> <<"n","o","2","_","a","q","i","_","v","a","l","u","e">>,
      ozone_aqi_value |-> <<"o","z","o","n","e","_","a","q","i","_","v","a","l","u","e">>,
      co_aqi_value |-> <<"c","o","_","a","q","i","_","v","a","l","u","e">>,
      year |-> <<"y","e","a","r">> ]

\* Aliases and substrings the loader and the pages look for
Strs ==
    [ entity |-> <<"e","n","t","i","t","y">>,
      country_name |-> <<"c","o","u","n","t","r","y","_","n","a","m","e">>,
      overall_aqi_value |-> <<"o","v","e","r","a","l","l","_","a","q","i","_","v","a","l","u","e">>,
      overall_aqi |-> <<"o","v","e","r","a","l","l","_","a","q","i">>,
      aqi |-> <<"a","q","i">>,
      overall_aqi_category |-> <<"o","v","e","r","a","l","l","_","a","q","i","_","c","a","t","e","g","o","r","y">>,
      pm25 |-> <<"p","m","2","5">>,
      pm10 |-> <<"p","m","1","0">>,
      no2 |-> <<"n","o","2">>,
      ozone |-> <<"o","z","o","n","e">>,
      o3 |-> <<"o","3">>,
      co |-> <<"c","o">>,
      suffix_aqi_value |-> <<"_","a","q","i","_","v","a","l","u","e">> ]

\* The labels of get_metric_options (the subscripts of NO2 and O3 written as digits)
Labels ==
    [ overall |-> <<"O","v","e","r","a","l","l"," ","A","Q","I"," ","V","a","l","u","e">>,
      pm25 |-> <<"P","M","2",".","5"," ","A","Q","I"," ","V","a","l","u","e">>,
      pm10 |-> <<"P","M","1","0"," ","A","Q","I"," ","V","a","l","u","e">>,
      co |-> <<"C","O"," ","A","Q","I"," ","V","a","l","u","e">>,
      no2 |-> <<"N","O","2"," ","A","Q","I"," ","V","a","l","u","e">>,
      o3 |-> <<"O","3"," ","A","Q","I"," ","V","a","l","u","e">> ]

-----------------------------------------------------------------------------
(* Exact rationals for numeric cells *)

RECURSIVE Gcd(_, _)
Gcd(a, b) == IF b = 0 THEN a ELSE Gcd(b, a % b)

Abs(x) == IF x < 0 THEN -x ELSE x

NaN == [n |-> 0, d |-> 0]

IsNaN(x) == x.d = 0

\* n/d in lowest terms, d # 0
Rat(n, d) ==
    LET g == Gcd(Abs(n), Abs(d))
        s == IF d < 0 THEN -1 ELSE 1
    IN  [n |-> (s * n) \div g, d |-> (s * d) \div g]

Num(k) == [n |-> k, d |-> 1]

RAdd(x, y) == IF IsNaN(x) \/ IsNaN(y) THEN NaN ELSE Rat(x.n * y.d + y.n * x.d, x.d * y.d)
RSub(x, y) == IF IsNaN(x) \/ IsNaN(y) THEN NaN ELSE Rat(x.n * y.d - y.n * x.d, x.d * y.d)
RMul(x, y) == IF IsNaN(x) \/ IsNaN(y) THEN NaN ELSE Rat(x.n * y.n, x.d * y.d)
RDiv(x, y) == IF IsNaN(x) \/ IsNaN(y) \/ y.n = 0 THEN NaN ELSE Rat(x.n * y.d, x.d * y.n)

\* x >= y, x <= y, x > y as IEEE comparisons: False when either side is NaN
RGe(x, y) == ~IsNaN(x) /\ ~IsNaN(y) /\ x.n * y.d >= y.n * x.d
RLe(x, y) == ~IsNaN(x) /\ ~IsNaN(y) /\ x.n * y.d <= y.n * x.d
RGt(x, y) == ~IsNaN(x) /\ ~IsNaN(y) /\ x.n * y.d > y.n * x.d

\* The missing text cell (pandas stores NaN in an object column)
NaS == "<NaN>"

-----------------------------------------------------------------------------
(* Data frames: [columns, dtypes, rows]; a row is a sequence of cells, one per
   column.  None is Python's None. *)

None == [none |-> TRUE]

IsNone(x) == DOMAIN x = {"none"}

Range(f) == {f[i] : i \in DOMAIN f}

\* pd.read_csv of a file that exists.  A column of a file without data rows is
\* read with dtype object; otherwise the dtype follows what the cells parse as.
ReadCsv(file) ==
    [columns |-> file.columns,
     dtypes  |-> IF file.rows = <<>>
                 THEN [i \in 1..Len(file.columns) |-> "object"]
                 ELSE file.kinds,
     rows    |-> file.rows]

\* One column name through strip / lower / replace(" ", "_") / remove ( ) .
NormaliseName(c) ==
    StrRemoveChar(
        StrRemoveChar(
            StrRemoveChar(
                StrReplaceChar(StrLower(StrStrip(c)), " ", "_"),
                "("),
            ")"),
        ".")

NormaliseColumns(df) ==
    [df EXCEPT !.columns = [i \in 1..Len(df.columns) |-> NormaliseName(df.columns[i])]]

\* The conditions of the rename rules, in source order
IsCountryAlias(c)  == c \in {Strs.entity, Strs.country_name}
IsAqiAliasSubstring(c) == Contains(Strs.aqi, c)
IsAqiAlias(c)      == c \in {Strs.overall_aqi_value, Strs.overall_aqi, Strs.aqi}
IsCategoryAlias(c) == c \in {Strs.overall_aqi_category}
IsPm25Rule(c)      == Contains(Strs.pm25, c) /\ Contains(Names.aqi_value, c)
IsPm10Rule(c)      == Contains(Strs.pm10, c) /\ Contains(Names.aqi_value, c)
IsNo2Rule(c)       == Contains(Strs.no2, c) /\ Contains(Names.aqi_value, c)
IsOzoneRule(c)     == (Contains(Strs.ozone, c) \/ Contains(Strs.o3, c)) /\ Contains(Names.aqi_value, c)
IsCoRule(c)        == Contains(Strs.co, c) /\ Contains(Names.aqi_value, c) /\ c # Names.aqi_value

\* a rename in which the first matching rule decides (an if / elif chain)
RenameMapEntryFirstMatch(c) ==
    CASE IsCountryAlias(c)  -> <<Names.country>>
      [] IsAqiAlias(c)      -> <<Names.aqi_value>>
      [] IsCategoryAlias(c) -> <<Names.aqi_category>>
      [] IsPm25Rule(c)      -> <<Names.pm25_aqi_value>>
      [] IsPm10Rule(c)      -> <<Names.pm10_aqi_value>>
      [] IsNo2Rule(c)       -> <<Names.no2_aqi_value>>
      [] IsOzoneRule(c)     -> <<Names.ozone_aqi_value>>
      [] IsCoRule(c)        -> <<Names.co_aqi_value>>
      [] OTHER              -> <<>>

\* rename_map[c] after the loop body ran for column c: <<>> when no rule assigned
\* it, else <<target>>.  The rules are independent `if`s, so a later match
\* overwrites an earlier one.
RenameMapEntry(c) ==
    LET m1 == IF IsCountryAlias(c)  THEN <<Names.country>>         ELSE <<>>
        m2 == IF IsAqiAlias(c)      THEN <<Names.aqi_value>>       ELSE m1
        m3 == IF IsCategoryAlias(c) THEN <<Names.aqi_category>>    ELSE m2
        m4 == IF IsPm25Rule(c)      THEN <<Names.pm25_aqi_value>>  ELSE m3
        m5 == IF IsPm10Rule(c)      THEN <<Names.pm10_aqi_value>>  ELSE m4
        m6 == IF IsNo2Rule(c)       THEN <<Names.no2_aqi_value>>   ELSE m5
        m7 == IF IsOzoneRule(c)     THEN <<Names.ozone_aqi_value>> ELSE m6
        m8 == IF IsCoRule(c)        THEN <<Names.co_aqi_value>>    ELSE m7
    IN  m8

\* df.rename(columns=rename_map) on one label: every column carrying a key of the
\* map is relabelled, whatever its position
RenameOne(c) == IF RenameMapEntry(c) = <<>> THEN c ELSE RenameMapEntry(c)[1]

RenameColumns(df) ==
    [df EXCEPT !.columns = [i \in 1..Len(df.columns) |-> RenameOne(df.columns[i])]]

\* load_base_data() when the file exists
load_base_data(file) == RenameColumns(NormaliseColumns(ReadCsv(file)))

\* load_pm25_data(): None when the file is missing
load_pm25_data(file) ==
    IF ~file.exists THEN None ELSE NormaliseColumns(ReadCsv(file))

HasCol(df, name) == \E i \in 1..Len(df.columns) : df.columns[i] = name

\* position of the (first) column labelled name
ColIdx(df, name) ==
    CHOOSE i \in 1..Len(df.columns) :
        /\ df.columns[i] = name
        /\ \A j \in 1..(i - 1) : df.columns[j] # name

\* df.select_dtypes(include="number").columns.tolist()
NumericCols(df) ==
    LET idx == SelectSeq([i \in 1..Len(df.columns) |-> i], LAMBDA i : df.dtypes[i] = "number")
    IN  [k \in 1..Len(idx) |-> df.columns[idx[k]]]

\* dict assignment d[key] = val on an insertion-ordered dict (a sequence of pairs)
DictSet(d, key, val) ==
    IF \E i \in 1..Len(d) : d[i].key = key
    THEN [i \in 1..Len(d) |-> IF d[i].key = key THEN [key |-> key, val |-> val] ELSE d[i]]
    ELSE Append(d, [key |-> key, val |-> val])

DictKeys(d) == [i \in 1..Len(d) |-> d[i].key]

DictHas(d, key) == \E i \in 1..Len(d) : d[i].key = key

DictGet(d, key) == d[CHOOSE i \in 1..Len(d) : d[i].key = key].val

RECURSIVE FallbackOptions(_, _)
FallbackOptions(cols, d) ==
    IF cols = <<>> THEN d
    ELSE FallbackOptions(Tail(cols),
                         DictSet(d, StrTitle(StrReplaceChar(Head(cols), "_", " ")), Head(cols)))

\* metric options taken from the numeric columns whatever the frame holds
MetricOptionsAllNumeric(df) == FallbackOptions(NumericCols(df), <<>>)

get_metric_options(df) ==
    LET c1 == IF HasCol(df, Names.aqi_value) THEN DictSet(<<>>, Labels.overall, Names.aqi_value) ELSE <<>>
        c2 == IF HasCol(df, Names.pm25_aqi_value) THEN DictSet(c1, Labels.pm25, Names.pm25_aqi_value) ELSE c1
        c3 == IF HasCol(df, Names.pm10_aqi_value) THEN DictSet(c2, Labels.pm10, Names.pm10_aqi_value) ELSE c2
        c4 == IF HasCol(df, Names.co_aqi_value) THEN DictSet(c3, Labels.co, Names.co_aqi_value) ELSE c3
        c5 == IF HasCol(df, Names.no2_aqi_value) THEN DictSet(c4, Labels.no2, Names.no2_aqi_value) ELSE c4
        c6 == IF HasCol(df, Names.ozone_aqi_value) THEN DictSet(c5, Labels.o3, Names.ozone_aqi_value) ELSE c5
    IN  IF c6 = <<>> THEN FallbackOptions(NumericCols(df), <<>>) ELSE c6

-----------------------------------------------------------------------------
(* Script start: lines 69, 70 and 100 *)

NoView == [page |-> "none", exception |-> "none", messages |-> {}]

\* line 69: base_df = load_base_data().  pd.read_csv raises FileNotFoundError for
\* a missing file and nothing catches it: the script run ends there.
LoadBase ==
    /\ pc = "load_base"
    /\ IF base_file.exists
       THEN /\ base_df' = load_base_data(base_file)
            /\ pc' = "load_pm25"
            /\ view' = view
       ELSE /\ base_df' = base_df
            /\ pc' = "aborted"
            /\ view' = [page |-> "none", exception |-> "FileNotFoundError", messages |-> {}]
    /\ UNCHANGED <<base_file, pm25_file, pm25_df, metric_options>>

\* line 70: pm25_df = load_pm25_data()
LoadPm25 ==
    /\ pc = "load_pm25"
    /\ pm25_df' = load_pm25_data(pm25_file)
    /\ pc' = "metric_options"
    /\ UNCHANGED <<base_file, pm25_file, base_df, metric_options, view>>

\* line 100: metric_options = get_metric_options(base_df)
MetricOptions ==
    /\ pc = "metric_options"
    /\ metric_options' = get_metric_options(base_df)
    /\ pc' = "page"
    /\ UNCHANGED <<base_file, pm25_file, base_df, pm25_df, view>>

\* A widget interaction re-runs the script.  The page is cleared; both loads are
\* served from st.cache_data and line 100 recomputes the same metric_options, so
\* the run is back at the page with the module-level values as they are.
Rerun ==
    /\ pc = "shown"
    /\ pc' = "page"
    /\ view' = NoView
    /\ UNCHANGED <<base_file, pm25_file, base_df, pm25_df, metric_options>>

InitScript ==
    /\ pc = "load_base"
    /\ base_df = None
    /\ pm25_df = None
    /\ metric_options = <<>>
    /\ view = NoView

-----------------------------------------------------------------------------
(* Schema specification: column names drawn from RawNames, one data row *)

RawNames == {
   <<"C","o","u","n","t","r","y">>,
   <<"C","o","u","n","t","r","y"," ">>,
   <<"C","O","U","N","T","R","Y">>,
   <<" ","C","O","U","N","T","R","Y"," ">>,
   <<"E","n","t","i","t","y">>,
   <<"c","o","u","n","t","r","y","_","n","a","m","e">>,
   <<"A","Q","I"," ","V","a","l","u","e">>,
   <<"O","v","e","r","a","l","l"," ","A","Q","I"," ","V","a","l","u","e">>,
   <<"a","q","i">>,
   <<"A","Q","I"," ","C","a","t","e","g","o","r","y">>,
   <<"O","v","e","r","a","l","l"," ","A","Q","I"," ","C","a","t","e","g","o","r","y">>,
   <<"P","M","2",".","5"," ","A","Q","I"," ","V","a","l","u","e">>,
   <<"P","M","1","0"," ","A","Q","I"," ","V","a","l","u","e">>,
   <<"N","O","2"," ","A","Q","I"," ","V","a","l","u","e">>,
   <<"O","z","o","n","e"," ","A","Q","I"," ","V","a","l","u","e">>,
   <<"O","3"," ","A","Q","I"," ","V","a","l","u","e">>,
   <<"C","O"," ","A","Q","I"," ","V","a","l","u","e">>,
   <<"c","o","_","p","m","2","5","_","a","q","i","_","v","a","l","u","e">>,
   <<"O","z","o","n","e"," ","P","M","1","0"," ","A","Q","I"," ","V","a","l","u","e">>,
   <<"C","o","u","n","t","r","y"," ","A","Q","I"," ","V","a","l","u","e">>,
   <<"Y","e","a","r">>,
   <<"C","o","d","e">>,
   <<"P","M","2",".","5"," ","(","u","g","/","m","3",")">>,
   <<" ","c","i","t","y"," ">> }

CanonicalNames == {Names.country, Names.aqi_value, Names.aqi_category, Names.pm25_aqi_value,
                   Names.pm10_aqi_value, Names.no2_aqi_value, Names.ozone_aqi_value, Names.co_aqi_value}

\* Sequences of 1..k distinct elements of S (read_csv never yields two equal raw labels)
DistinctSeqs(S, k) ==
    UNION {{s \in [1..m -> S] : \A i, j \in 1..m : i # j => s[i] # s[j]} : m \in 1..k}

PlaceholderCell(kind) == IF kind = "number" THEN Num(1) ELSE "x"

SchemaFile(cols, kinds) ==
    [exists  |-> TRUE,
     columns |-> cols,
     kinds   |-> kinds,
     rows    |-> <<[i \in 1..Len(cols) |-> PlaceholderCell(kinds[i])]>>]

\* the dtypes of n columns: one for the first column and one for the others
KindPatterns(n) ==
    {[i \in 1..n |-> IF i = 1 THEN a ELSE b] : a, b \in {"number", "object"}}

InitSchema ==
    /\ \E cols \in DistinctSeqs(RawNames, MaxCols) :
         \E kinds \in KindPatterns(Len(cols)) :
            /\ base_file = SchemaFile(cols, kinds)
            /\ pm25_file = SchemaFile(cols, kinds)
    /\ InitScript

NextSchema == LoadBase \/ LoadPm25 \/ MetricOptions

SpecSchema == InitSchema /\ [][NextSchema]_vars

-----------------------------------------------------------------------------
(* Name specification: both files have one column, whose name is any string of
   1..MaxNameLen characters of NameChars *)

NameChars == {" ", "\t", "A", "b", "(", ")", ".", "_"}

NameStrings == UNION {[1..m -> NameChars] : m \in 1..MaxNameLen}

InitNames ==
    /\ \E name \in NameStrings, kind \in {"number", "object"} :
            /\ base_file = SchemaFile(<<name>>, <<kind>>)
            /\ pm25_file = SchemaFile(<<name>>, <<kind>>)
    /\ InitScript

SpecNames == InitNames /\ [][NextSchema]_vars

-----------------------------------------------------------------------------
(* Column and frame operations used by the pages *)

IsNA(v, dtype) == IF dtype = "number" THEN IsNaN(v) ELSE v = NaS

\* df[name] as the sequence of its cells
ColCells(df, name) == [r \in 1..Len(df.rows) |-> df.rows[r][ColIdx(df, name)]]

ColDtype(df, name) == df.dtypes[ColIdx(df, name)]

\* df[name].dropna().unique() as a set
ColUnique(df, name) ==
    {v \in Range(ColCells(df, name)) : ~IsNA(v, ColDtype(df, name))}

\* Series.min() / Series.max() of a numeric column: NaN cells are skipped, and the
\* result is NaN when nothing is left
ColMin(df, name) ==
    LET vals == ColUnique(df, name)
    IN  IF vals = {} THEN NaN ELSE CHOOSE v \in vals : \A w \in vals : RLe(v, w)

ColMax(df, name) ==
    LET vals == ColUnique(df, name)
    IN  IF vals = {} THEN NaN ELSE CHOOSE v \in vals : \A w \in vals : RGe(v, w)

\* round(x, 1): to one decimal, ties to even
Round1(x) ==
    IF IsNaN(x) THEN NaN
    ELSE LET p == 10 * x.n
             f == p \div x.d
             r == p - f * x.d
             up == (2 * r > x.d) \/ (2 * r = x.d /\ f % 2 = 1)
         IN  Rat(IF up THEN f + 1 ELSE f, 10)

\* an emptiness test that looks at the columns only
DfEmptyColumnsOnly(df) == df.columns = <<>>

\* df.empty: some axis has length 0
DfEmpty(df) == df.rows = <<>> \/ df.columns = <<>>

\* a membership filter that keeps every row
FilterKeepAll(df, name, S) == df

\* df[df[name].isin(S)]: a missing cell is in no selection
FilterIsin(df, name, S) ==
    [df EXCEPT !.rows = SelectSeq(df.rows, LAMBDA row : row[ColIdx(df, name)] \in S)]

\* df[df[name] >= t]
FilterGe(df, name, t) ==
    [df EXCEPT !.rows = SelectSeq(df.rows, LAMBDA row : RGe(row[ColIdx(df, name)], t))]

\* A frame object: obj tells which Python object it is ("base_df" is the module-level
\* frame, "new" any frame made during a render), df is its content.
BaseRef == [obj |-> "base_df", df |-> base_df]

\* ref = ref (no copy): both names denote one object
DfAlias(ref) == ref

\* df.copy(): a new object with the same content
DfCopy(ref) == [obj |-> "new", df |-> ref.df]

\* an in-place write (df[col] = ...) changes the object the name denotes
DfAssign(ref, df) == [obj |-> ref.obj, df |-> df]

\* the content of the module-level base_df after a render whose last in-place
\* write left the written name at ref
BaseAfter(ref) == IF ref.obj = "base_df" THEN ref.df ELSE base_df

RECURSIVE SumCells(_)
SumCells(cells) ==
    IF cells = <<>> THEN Num(0) ELSE RAdd(Head(cells), SumCells(Tail(cells)))

\* a mean that counts a missing cell as zero
MeanCellsZeroFill(cells) ==
    IF cells = <<>> THEN NaN
    ELSE RDiv(SumCells(SelectSeq(cells, LAMBDA v : ~IsNaN(v))), Num(Len(cells)))

\* Series.mean(): the NaN cells are skipped; NaN when no cell is left
MeanCells(cells) ==
    LET present == SelectSeq(cells, LAMBDA v : ~IsNaN(v))
    IN  IF present = <<>> THEN NaN ELSE RDiv(SumCells(present), Num(Len(present)))

\* df.groupby(key, as_index=False)[metric].mean(): one entry per non-missing key,
\* as a function key -> mean
GroupbyMean(df, key, metric) ==
    [k \in ColUnique(df, key) |->
        MeanCells(LET rs == SelectSeq(df.rows, LAMBDA row : row[ColIdx(df, key)] = k)
                  IN  [i \in 1..Len(rs) |-> rs[i][ColIdx(df, metric)]])]

AggKeepAll(agg) == agg

\* .dropna() of the aggregate: the entries with a NaN mean go
AggDropna(agg) == [k \in {c \in DOMAIN agg : ~IsNaN(agg[c])} |-> agg[k]]

-----------------------------------------------------------------------------
(* PAGE 1 - Global Map, lines 296-459 *)

\* Offsets from the slider minimum that the model tries (the slider's step is 1.0)
SliderOffsets == {0, 10}

\* The values st.slider(min_value=lo, max_value=hi, step=1.0) can return.  With
\* NaN bounds (no non-missing value) the slider hands back its NaN default.
SliderValues(lo, hi) ==
    IF IsNaN(lo) \/ IsNaN(hi) THEN {NaN}
    ELSE {t \in {RAdd(lo, Num(k)) : k \in SliderOffsets} : RLe(t, hi)}

\* lines 331-341: the choices the category multiselect offers; <<>> is None
MapCategoryChoices ==
    IF HasCol(base_df, Names.aqi_category)
    THEN {<<S>> : S \in SUBSET ColUnique(base_df, Names.aqi_category)}
    ELSE {<<>>}

\* lines 344-357: the values the threshold slider can return; <<>> is None
MapThresholdChoices ==
    IF HasCol(base_df, Names.aqi_value)
    THEN {<<t>> : t \in SliderValues(Round1(ColMin(base_df, Names.aqi_value)),
                                      Round1(ColMax(base_df, Names.aqi_value)))}
    ELSE {<<>>}

\* lines 365-366: `if selected_cats:` is False for None and for the empty list
MapApplyCategories(df, selected_cats) ==
    IF selected_cats # <<>> /\ selected_cats[1] # {}
    THEN FilterIsin(df, Names.aqi_category, selected_cats[1])
    ELSE df

MapApplyThresholdStrict(df, min_threshold) ==
    IF min_threshold # <<>> /\ HasCol(df, Names.aqi_value)
    THEN [df EXCEPT !.rows = SelectSeq(df.rows,
            LAMBDA row : RGt(row[ColIdx(df, Names.aqi_value)], min_threshold[1]))]
    ELSE df

\* lines 367-368
MapApplyThreshold(df, min_threshold) ==
    IF min_threshold # <<>> /\ HasCol(df, Names.aqi_value)
    THEN FilterGe(df, Names.aqi_value, min_threshold[1])
    ELSE df

\* lines 300-304: the label the metric selectbox starts on (metric_options is not
\* empty here)
DefaultMetricLabel ==
    IF DictHas(metric_options, Labels.overall)
    THEN Labels.overall
    ELSE DictKeys(metric_options)[1]

\* lines 363-368
MapFilter(ref, selected_cats, min_threshold) ==
    MapApplyThreshold(MapApplyCategories(DfCopy(ref).df, selected_cats), min_threshold)

\* line 375
MapAggregate(df_map, metric_col) == AggDropna(GroupbyMean(df_map, Names.country, metric_col))

\* lines 370-459 for the chosen widget values
MapView(metric_label, selected_cats, min_threshold) ==
    LET metric_col == DictGet(metric_options, metric_label)
        df_map == MapFilter(BaseRef, selected_cats, min_threshold)
        base == [page |-> "map", exception |-> "none",
                 default_metric_label |-> DefaultMetricLabel, metric_label |-> metric_label,
                 metric_col |-> metric_col, selected_cats |-> selected_cats,
                 min_threshold |-> min_threshold, df_map |-> df_map]
    IN  IF DfEmpty(df_map)
        THEN base @@ [messages |-> {"warning: No data matches the current filters"},
                      agg |-> <<>>]
        ELSE IF ~HasCol(df_map, Names.country)
        THEN base @@ [messages |-> {"error: Column 'country' is missing"}, agg |-> <<>>]
        ELSE LET agg == MapAggregate(df_map, metric_col)
             IN  IF DOMAIN agg = {}
                 THEN base @@ [messages |-> {"warning: No countries found after aggregation"},
                               agg |-> <<agg>>]
                 ELSE base @@ [messages |-> {"map"}, agg |-> <<agg>>]

\* lines 300-304: with no metric option, list(metric_options.keys())[0] raises
\* IndexError before anything is shown
RenderMap ==
    /\ pc = "page"
    /\ pc' = "shown"
    /\ IF metric_options = <<>>
       THEN view' = [page |-> "map", exception |-> "IndexError", messages |-> {}]
       ELSE \E metric_label \in Range(DictKeys(metric_options)),
               selected_cats \in MapCategoryChoices,
               min_threshold \in MapThresholdChoices :
                view' = MapView(metric_label, selected_cats, min_threshold)
    /\ UNCHANGED <<base_file, pm25_file, base_df, pm25_df, metric_options>>

-----------------------------------------------------------------------------
(* Map specification: the usual AQI schema, up to MaxRows data rows *)

Countries  == {"USA", "India"}
Categories == {"Good", NaS}
\* (aqi_value, pm25_aqi_value) of a row
MetricPairs == {<<Num(10), Num(20)>>, <<Num(20), Num(10)>>,
                <<Num(10), NaN>>, <<Num(20), NaN>>}

MapRawColumns ==
    << <<"C","o","u","n","t","r","y">>,
       <<"A","Q","I"," ","C","a","t","e","g","o","r","y">>,
       <<"A","Q","I"," ","V","a","l","u","e">>,
       <<"P","M","2",".","5"," ","A","Q","I"," ","V","a","l","u","e">> >>

MapRowDomain ==
    {<<c, g, m[1], m[2]>> : c \in Countries, g \in Categories, m \in MetricPairs}

SeqsUpTo(S, k) == UNION {[1..m -> S] : m \in 0..k}

Pm25RawColumns ==
    << <<"E","n","t","i","t","y">>, <<"Y","e","a","r">>,
       <<"P","M","2",".","5"," ","(","u","g","/","m","3",")">> >>

Pm25SampleFile ==
    [exists  |-> TRUE,
     columns |-> Pm25RawColumns,
     kinds   |-> <<"object", "number", "number">>,
     rows    |-> << <<"USA", Num(2010), Num(9)>>, <<"USA", Num(2011), Num(8)>> >>]

MissingFile == [exists |-> FALSE, columns |-> <<>>, kinds |-> <<>>, rows |-> <<>>]

InitMap ==
    /\ \E rows \in SeqsUpTo(MapRowDomain, MaxRows) :
         base_file = [exists  |-> TRUE,
                      columns |-> MapRawColumns,
                      kinds   |-> <<"object", "object", "number", "number">>,
                      rows    |-> rows]
    /\ pm25_file = Pm25SampleFile
    /\ InitScript

NextMap == LoadBase \/ LoadPm25 \/ MetricOptions \/ RenderMap \/ Rerun

SpecMap == InitMap /\ [][NextMap]_vars

-----------------------------------------------------------------------------
(* PAGE 2 - AQI Summary, lines 464-510 *)

\* [c for c in df.columns if c.endswith("_aqi_value") and c != "aqi_value"]
PollutantCols(df) ==
    SelectSeq(df.columns, LAMBDA c : EndsWith(c, Strs.suffix_aqi_value) /\ c # Names.aqi_value)

\* st.selectbox over an empty option list returns None, and metric_options[None]
\* raises KeyError (line 473).  describe() of a non-numeric column has no "mean"
\* row, so the selection of line 490 raises KeyError.
SummaryView(metric_label) ==
    LET metric_col == DictGet(metric_options, metric_label)
    IN  IF ColDtype(base_df, metric_col) # "number"
        THEN [page |-> "summary", exception |-> "KeyError", messages |-> {"histogram"},
              metric_col |-> metric_col]
        ELSE [page |-> "summary", exception |-> "none",
              messages |-> {"histogram", "statistics"}
                           \cup (IF Len(PollutantCols(base_df)) >= 2
                                 THEN {"correlation"} ELSE {}),
              metric_col |-> metric_col]

RenderSummary ==
    /\ pc = "page"
    /\ pc' = "shown"
    /\ IF metric_options = <<>>
       THEN view' = [page |-> "summary", exception |-> "KeyError", messages |-> {}]
       ELSE \E metric_label \in Range(DictKeys(metric_options)) :
                view' = SummaryView(metric_label)
    /\ UNCHANGED <<base_file, pm25_file, base_df, pm25_df, metric_options>>

-----------------------------------------------------------------------------
(* PAGE 3 - Country pollutants, lines 515-567 *)

\* df.groupby("country")[pollutant_cols].mean(): country -> (column -> mean)
GroupbyMeans(df, key, cols) ==
    [k \in ColUnique(df, key) |->
        [j \in 1..Len(cols) |-> GroupbyMean(df, key, cols[j])[k]]]

CountryView(selected_countries) ==
    LET base == [page |-> "country", exception |-> "none",
                 selected_countries |-> selected_countries]
    IN  IF selected_countries = {}
        THEN base @@ [messages |-> {"info: Select at least one country"}]
        ELSE LET df_c == FilterIsin(base_df, Names.country, selected_countries)
                 pollutant_cols == PollutantCols(base_df)
             IN  IF pollutant_cols = <<>>
                 THEN base @@ [messages |-> {"warning: No pollutant-specific AQI columns found"}]
                 ELSE base @@ [messages |-> {"bar chart"},
                               avg_pollutants |-> GroupbyMeans(df_c, Names.country, pollutant_cols)]

RenderCountry ==
    /\ pc = "page"
    /\ pc' = "shown"
    /\ IF ~HasCol(base_df, Names.country)
       THEN view' = [page |-> "country", exception |-> "none",
                     messages |-> {"error: Column 'country' is missing"}]
       ELSE \E selected_countries \in SUBSET ColUnique(base_df, Names.country) :
                view' = CountryView(selected_countries)
    /\ UNCHANGED <<base_file, pm25_file, base_df, pm25_df, metric_options>>

-----------------------------------------------------------------------------
(* PAGES 4 and 6 - the PM2.5 frame, lines 580-586 and 879-885 *)

\* list.remove(x): the first occurrence goes
ListRemove(l, x) ==
    IF \E i \in 1..Len(l) : l[i] = x
    THEN LET k == CHOOSE i \in 1..Len(l) : l[i] = x /\ \A j \in 1..(i - 1) : l[j] # x
         IN  SubSeq(l, 1, k - 1) \o SubSeq(l, k + 1, Len(l))
    ELSE l

\* pm_country_col (lines 580, 879)
PmCountryCol(df) == IF HasCol(df, Names.country) THEN Names.country ELSE df.columns[1]

\* pm_year_col (lines 581, 880); pm25_df.columns[1] raises IndexError on a frame
\* with a single column
PmYearColRaises(df) == ~HasCol(df, Names.year) /\ Len(df.columns) < 2

PmYearCol(df) == IF HasCol(df, Names.year) THEN Names.year ELSE df.columns[2]

\* pm_value_col (lines 583-586, 882-885): <<>> is None
PmValueCol(df) ==
    LET numeric_cols == ListRemove(NumericCols(df), PmYearCol(df))
    IN  IF numeric_cols = <<>> THEN <<>> ELSE <<numeric_cols[1]>>

\* df[df[name] == value] for a value of the given dtype; value <<>> is None, which
\* equals no cell, and a number equals no text
FilterEq(df, name, value, dtype) ==
    [df EXCEPT !.rows = SelectSeq(df.rows,
        LAMBDA row : /\ value # <<>>
                     /\ ColDtype(df, name) = dtype
                     /\ row[ColIdx(df, name)] = value[1])]

\* row goes before head in ascending order of column position k, NaN keys last
SortsBefore(row, head, k) ==
    ~IsNaN(row[k]) /\ (IsNaN(head[k]) \/ RGt(head[k], row[k]))

\* insertion of row into sorted rows, after every row it does not sort before (the
\* sort is taken to be stable, which numpy's sort is for the short inputs here)
RECURSIVE InsertSorted(_, _, _)
InsertSorted(rows, row, k) ==
    IF rows = <<>> THEN <<row>>
    ELSE IF SortsBefore(row, Head(rows), k)
         THEN <<row>> \o rows
         ELSE <<Head(rows)>> \o InsertSorted(Tail(rows), row, k)

RECURSIVE SortRows(_, _)
SortRows(rows, k) ==
    IF rows = <<>> THEN <<>>
    ELSE InsertSorted(SortRows(SubSeq(rows, 1, Len(rows) - 1), k), rows[Len(rows)], k)

\* the frame in file order, not sorted
SortKeepOrder(df, name) == df

\* df.sort_values(name) on a numeric column
SortValues(df, name) == [df EXCEPT !.rows = SortRows(df.rows, ColIdx(df, name))]

\* the values a selectbox over options can return; None (<<>>) when there are none
SelectboxChoices(options) == IF options = {} THEN {<<>>} ELSE {<<o>> : o \in options}

-----------------------------------------------------------------------------
(* PAGE 4 - Country Deep Dive, lines 572-660 *)

\* every country of the PM2.5 frame, shared or not
DeepDivePmCountries == ColUnique(pm25_df, PmCountryCol(pm25_df))

\* lines 591-593
DeepDiveCountries ==
    LET pm_countries == ColUnique(pm25_df, PmCountryCol(pm25_df))
        base_countries == IF HasCol(base_df, Names.country)
                             /\ ColDtype(base_df, Names.country)
                                  = ColDtype(pm25_df, PmCountryCol(pm25_df))
                          THEN ColUnique(base_df, Names.country) ELSE {}
    IN  IF base_countries \cap pm_countries # {}
        THEN base_countries \cap pm_countries
        ELSE pm_countries

\* lines 600-632, the left column
DeepDiveLeft(selected_country) ==
    LET df_c == FilterEq(base_df, Names.country, selected_country,
                         ColDtype(pm25_df, PmCountryCol(pm25_df)))
    IN  IF DfEmpty(df_c)
        THEN [messages |-> {"info: No AQI data found for this country"}]
        ELSE [messages |-> (IF HasCol(df_c, Names.aqi_value) THEN {"Average AQI (overall)"} ELSE {})
                           \cup (IF PollutantCols(df_c) # <<>>
                                 THEN {"pollutant bar chart"}
                                 ELSE {"No pollutant-specific AQI columns to summarise"}),
              avg_aqi |-> IF HasCol(df_c, Names.aqi_value)
                          THEN <<MeanCells(ColCells(df_c, Names.aqi_value))>> ELSE <<>>]

\* int(x) of a float: the fraction is cut off, towards zero
IntOf(x) == Num(IF x.n >= 0 THEN x.n \div x.d ELSE -((-x.n) \div x.d))

\* lines 635-660, the right column.  int() of a NaN or of a text year raises
\* ValueError.
DeepDiveRight(selected_country) ==
    LET pm_country_col == PmCountryCol(pm25_df)
        pm_year_col == PmYearCol(pm25_df)
        pm_value_col == PmValueCol(pm25_df)[1]
        picked == FilterEq(pm25_df, pm_country_col, selected_country,
                           ColDtype(pm25_df, pm_country_col))
    IN  IF DfEmpty(picked)
        THEN [exception |-> "none",
              messages |-> {"info: No PM2.5 data available for this country"}]
        ELSE IF ColDtype(pm25_df, pm_year_col) # "number"
        THEN [exception |-> "ValueError", messages |-> {}]
        ELSE LET df_pm == SortValues(picked, pm_year_col)
                 latest_row == df_pm.rows[Len(df_pm.rows)]
                 latest_year == latest_row[ColIdx(df_pm, pm_year_col)]
                 latest_val == latest_row[ColIdx(df_pm, pm_value_col)]
             IN  IF IsNaN(latest_year)
                 THEN [exception |-> "ValueError", messages |-> {}]
                 ELSE [exception |-> "none",
                       messages |-> {"Latest PM2.5", "PM2.5 trend"},
                       latest_year |-> IntOf(latest_year),
                       latest_val |-> latest_val,
                       df_pm |-> df_pm]

\* base_df["country"] of line 602 raises KeyError when base_df has no such column
DeepDiveView(selected_country) ==
    LET base == [page |-> "deep_dive", common_countries |-> DeepDiveCountries,
                 selected_country |-> selected_country]
    IN  IF ~HasCol(base_df, Names.country)
        THEN base @@ [exception |-> "KeyError", messages |-> {}]
        ELSE LET left == DeepDiveLeft(selected_country)
                 right == DeepDiveRight(selected_country)
             IN  base @@ [exception |-> right.exception,
                          messages |-> left.messages \cup right.messages,
                          left |-> left, right |-> right]

RenderDeepDive ==
    /\ pc = "page"
    /\ pc' = "shown"
    /\ IF IsNone(pm25_df)
       THEN view' = [page |-> "deep_dive", exception |-> "none",
                     messages |-> {"warning: The PM2.5 dataset was not found"}]
       ELSE IF PmYearColRaises(pm25_df)
       THEN view' = [page |-> "deep_dive", exception |-> "IndexError", messages |-> {}]
       ELSE IF PmValueCol(pm25_df) = <<>>
       THEN view' = [page |-> "deep_dive", exception |-> "none",
                     messages |-> {"error: Could not find a numeric PM2.5 column"}]
       ELSE \E selected_country \in SelectboxChoices(DeepDiveCountries) :
                view' = DeepDiveView(selected_country)
    /\ UNCHANGED <<base_file, pm25_file, base_df, pm25_df, metric_options>>

-----------------------------------------------------------------------------
(* PAGE 5 - Data Lab, lines 665-867 *)

MissingStrategies == {"leave", "drop", "mean", "median"}
NormChoices == {"None", "MinMax", "Z"}
QuestionTypes == {"count", "average", "top_n", "compare"}

\* (p_low, p_high) values of the percentile slider that the model tries
PercentileChoices == {<<0, 100>>, <<50, 100>>}

\* values of the "Top N countries" slider that the model tries
TopNChoices == {3}

\* df.dropna(): the rows without any missing cell
DropNa(df) ==
    [df EXCEPT !.rows = SelectSeq(df.rows,
        LAMBDA row : \A j \in 1..Len(df.columns) : ~IsNA(row[j], df.dtypes[j]))]

\* the non-missing cells in ascending order
SortedPresent(cells) ==
    LET present == SelectSeq(cells, LAMBDA v : ~IsNaN(v))
        sorted == SortRows([i \in 1..Len(present) |-> <<present[i]>>], 1)
    IN  [i \in 1..Len(sorted) |-> sorted[i][1]]

\* Series.median(): NaN cells skipped, NaN when nothing is left
MedianCells(cells) ==
    LET a == SortedPresent(cells)
        n == Len(a)
    IN  IF n = 0 THEN NaN
        ELSE IF n % 2 = 1 THEN a[(n + 1) \div 2]
        ELSE RDiv(RAdd(a[n \div 2], a[n \div 2 + 1]), Num(2))

\* df[num_cols] = df[num_cols].apply(lambda col: col.fillna(stat(col)))
FillNumeric(df, stat) ==
    LET fill == [j \in 1..Len(df.columns) |->
                    IF df.dtypes[j] = "number"
                    THEN (IF stat = "median" THEN MedianCells([r \in 1..Len(df.rows) |-> df.rows[r][j]])
                          ELSE MeanCells([r \in 1..Len(df.rows) |-> df.rows[r][j]]))
                    ELSE NaN]
    IN  [df EXCEPT !.rows =
            [r \in 1..Len(df.rows) |->
                [j \in 1..Len(df.columns) |->
                    IF df.dtypes[j] = "number" /\ IsNaN(df.rows[r][j])
                    THEN fill[j] ELSE df.rows[r][j]]]]

\* lines 730-739
LabMissing(ref, missing_strategy) ==
    CASE missing_strategy = "drop"   -> [obj |-> "new", df |-> DropNa(ref.df)]
      [] missing_strategy = "mean"   -> DfAssign(ref, FillNumeric(ref.df, "mean"))
      [] missing_strategy = "median" -> DfAssign(ref, FillNumeric(ref.df, "median"))
      [] OTHER -> ref

\* df[name] = cells: the column is replaced when it exists and appended otherwise
SetColumn(df, name, cells) ==
    IF HasCol(df, name)
    THEN [df EXCEPT !.rows = [r \in 1..Len(df.rows) |->
                                 [df.rows[r] EXCEPT ![ColIdx(df, name)] = cells[r]]],
                    !.dtypes = [df.dtypes EXCEPT ![ColIdx(df, name)] = "number"]]
    ELSE [columns |-> Append(df.columns, name),
          dtypes  |-> Append(df.dtypes, "number"),
          rows    |-> [r \in 1..Len(df.rows) |-> Append(df.rows[r], cells[r])]]

\* Series.std() squared: the sample variance of the non-missing cells, NaN for
\* fewer than two
VarCells(cells) ==
    LET present == SelectSeq(cells, LAMBDA v : ~IsNaN(v))
        m == MeanCells(cells)
        sq == [i \in 1..Len(present) |-> RMul(RSub(present[i], m), RSub(present[i], m))]
    IN  IF Len(present) < 2 THEN NaN
        ELSE RDiv(SumCells(sq), Num(Len(present) - 1))

Suffix_scaled == <<"_","s","c","a","l","e","d">>
Suffix_z == <<"_","z">>

\* (x - mean) / std with std = sqrt(var), kept as the exact pair (x - mean, var)
ZCell(x, mean_v, var_v) ==
    IF IsNaN(x) THEN NaN ELSE [num |-> RSub(x, mean_v), var |-> var_v]

\* a min-max scaling that overwrites the metric column itself
LabNormaliseOverwrite(ref, base_metric, norm_choice) ==
    LET col == ColCells(ref.df, base_metric)
        min_v == ColMin(ref.df, base_metric)
        max_v == ColMax(ref.df, base_metric)
    IN  IF norm_choice = "MinMax" /\ RGt(max_v, min_v)
        THEN DfAssign(ref, SetColumn(ref.df, base_metric,
                 [r \in 1..Len(col) |-> RDiv(RSub(col[r], min_v), RSub(max_v, min_v))]))
        ELSE ref

\* lines 741-754: the scaled column is written into df_clean in place
LabNormalise(ref, base_metric, norm_choice) ==
    LET col == ColCells(ref.df, base_metric)
        min_v == ColMin(ref.df, base_metric)
        max_v == ColMax(ref.df, base_metric)
        mean_v == MeanCells(col)
        var_v == VarCells(col)
    IN  IF norm_choice = "MinMax" /\ RGt(max_v, min_v)
        THEN DfAssign(ref, SetColumn(ref.df, base_metric \o Suffix_scaled,
                 [r \in 1..Len(col) |-> RDiv(RSub(col[r], min_v), RSub(max_v, min_v))]))
        ELSE IF norm_choice = "Z" /\ RGt(var_v, Num(0))
        THEN DfAssign(ref, SetColumn(ref.df, base_metric \o Suffix_z,
                 [r \in 1..Len(col) |-> ZCell(col[r], mean_v, var_v)]))
        ELSE ref

\* np.percentile(a, p) with linear interpolation, a the sorted non-missing cells
\* (at least one)
Percentile(a, p) ==
    LET n == Len(a)
        lo == ((n - 1) * p) \div 100
        frac == Rat((n - 1) * p - 100 * lo, 100)
    IN  IF lo + 2 > n THEN a[lo + 1]
        ELSE RAdd(a[lo + 1], RMul(frac, RSub(a[lo + 2], a[lo + 1])))

\* np.percentile of an empty array: NaN, or IndexError, depending on the numpy
\* release; both are outcomes
EmptyPercentileOutcomes == {"nan", "IndexError"}

\* lines 757-759 take a percentile of no value at all
LabPercentileOfEmpty(df, base_metric, p) ==
    /\ p[1] > 0 \/ p[2] < 100
    /\ SortedPresent(ColCells(df, base_metric)) = <<>>

\* lines 756-760
LabPercentileFilter(df, base_metric, p) ==
    IF p[1] > 0 \/ p[2] < 100
    THEN LET a == SortedPresent(ColCells(df, base_metric))
             q_low == IF a = <<>> THEN NaN ELSE Percentile(a, p[1])
             q_high == IF a = <<>> THEN NaN ELSE Percentile(a, p[2])
         IN  [df EXCEPT !.rows = SelectSeq(df.rows,
                LAMBDA row : /\ RGe(row[ColIdx(df, base_metric)], q_low)
                             /\ RLe(row[ColIdx(df, base_metric)], q_high))]
    ELSE df

\* lines 728-754: the object df_clean names after cleaning and normalisation
LabCleanRef(missing_strategy, base_metric, norm_choice) ==
    LabNormalise(LabMissing(DfCopy(BaseRef), missing_strategy), base_metric, norm_choice)

\* lines 768-777, 780-788: a multiselect over the values of a column; <<>> is None
LabMultiselectChoices(df, name) ==
    IF HasCol(df, name) THEN {<<S>> : S \in SUBSET ColUnique(df, name)} ELSE {<<>>}

\* lines 792-800: the (val_low, val_high) pairs of the range slider
LabRangeChoices(df, base_metric) ==
    LET stops == SliderValues(Round1(ColMin(df, base_metric)),
                              Round1(ColMax(df, base_metric)))
    IN  {val \in stops \X stops : RLe(val[1], val[2]) \/ IsNaN(val[1])}

\* lines 803-808: df_q is a copy of df_clean and every filter makes a new frame
LabQuestionFilter(df_clean, base_metric, selected_countries, selected_q_cats, val) ==
    LET d0 == df_clean
        d1 == IF selected_countries # <<>> /\ selected_countries[1] # {}
              THEN FilterIsin(d0, Names.country, selected_countries[1]) ELSE d0
        d2 == IF selected_q_cats # <<>> /\ selected_q_cats[1] # {}
              THEN FilterIsin(d1, Names.aqi_category, selected_q_cats[1]) ELSE d1
    IN  [d2 EXCEPT !.rows = SelectSeq(d2.rows,
            LAMBDA row : /\ RGe(row[ColIdx(d2, base_metric)], val[1])
                         /\ RLe(row[ColIdx(d2, base_metric)], val[2]))]

\* agg.nlargest(n, metric): the entries with fewer than n strictly larger means,
\* NaN means never (the n largest, when no tie straddles the cut)
NLargest(agg, n) ==
    LET ranked == {c \in DOMAIN agg :
                     /\ ~IsNaN(agg[c])
                     /\ Cardinality({e \in DOMAIN agg : RGt(agg[e], agg[c])}) < n}
    IN  [c \in ranked |-> agg[c]]

\* lines 822-864
LabAnswer(df_q, base_metric, q_type, n) ==
    IF DfEmpty(df_q)
    THEN [messages |-> {"warning: No rows match your current filters"}, answer |-> <<>>]
    ELSE CASE q_type = "count" ->
                [messages |-> {"count", "table"}, answer |-> <<Len(df_q.rows)>>]
           [] q_type = "average" ->
                [messages |-> {"average", "table"},
                 answer |-> <<MeanCells(ColCells(df_q, base_metric))>>]
           [] q_type = "top_n" ->
                IF ~HasCol(df_q, Names.country)
                THEN [messages |-> {"error: Country column is missing", "table"},
                      answer |-> <<>>]
                ELSE [messages |-> {"top n", "table"},
                      answer |-> <<NLargest(GroupbyMean(df_q, Names.country, base_metric), n)>>]
           [] OTHER ->
                IF ~HasCol(df_q, Names.country)
                THEN [messages |-> {"error: Country column is missing", "table"},
                      answer |-> <<>>]
                ELSE [messages |-> {"compare", "table"},
                      answer |-> <<GroupbyMean(df_q, Names.country, base_metric)>>]

\* lines 689-692: without a numeric column the page shows an error and st.stop()
\* ends the run
RenderDataLab ==
    /\ pc = "page"
    /\ pc' = "shown"
    /\ IF NumericCols(base_df) = <<>>
       THEN /\ view' = [page |-> "data_lab", exception |-> "none",
                        messages |-> {"error: No numeric columns detected"}]
            /\ base_df' = base_df
       ELSE \E missing_strategy \in MissingStrategies,
               base_metric \in Range(NumericCols(base_df)),
               norm_choice \in NormChoices,
               p \in PercentileChoices :
            LET clean == LabCleanRef(missing_strategy, base_metric, norm_choice)
                inputs == [page |-> "data_lab", missing_strategy |-> missing_strategy,
                           base_metric |-> base_metric, norm_choice |-> norm_choice,
                           p |-> p]
            IN  /\ base_df' = BaseAfter(clean)
                /\ \E on_empty \in (IF LabPercentileOfEmpty(clean.df, base_metric, p)
                                     THEN EmptyPercentileOutcomes ELSE {"nan"}) :
                   IF on_empty = "IndexError"
                   THEN view' = inputs @@ [exception |-> "IndexError", messages |-> {}]
                   ELSE LET df_clean == LabPercentileFilter(clean.df, base_metric, p)
                        IN  \E selected_countries \in LabMultiselectChoices(df_clean, Names.country),
                               selected_q_cats \in LabMultiselectChoices(df_clean, Names.aqi_category),
                               val \in LabRangeChoices(df_clean, base_metric),
                               q_type \in QuestionTypes,
                               n \in TopNChoices :
                            LET df_q == LabQuestionFilter(df_clean, base_metric,
                                            selected_countries, selected_q_cats, val)
                            IN  view' = inputs
                                        @@ [exception |-> "none",
                                            selected_countries |-> selected_countries,
                                            selected_q_cats |-> selected_q_cats,
                                            val |-> val, q_type |-> q_type, n |-> n,
                                            df_clean |-> df_clean, df_q |-> df_q]
                                        @@ LabAnswer(df_q, base_metric, q_type, n)
    /\ UNCHANGED <<base_file, pm25_file, pm25_df, metric_options>>

-----------------------------------------------------------------------------
(* PAGE 6 - PM2.5 Trends, lines 872-911 *)

Pm25View(selected_country) ==
    LET pm_country_col == PmCountryCol(pm25_df)
        pm_year_col == PmYearCol(pm25_df)
        picked == FilterEq(pm25_df, pm_country_col, selected_country,
                           ColDtype(pm25_df, pm_country_col))
        base == [page |-> "pm25", exception |-> "none",
                 selected_country |-> selected_country]
    IN  IF DfEmpty(picked)
        THEN base @@ [messages |-> {"info: No PM2.5 data available for this country"}]
        ELSE base @@ [messages |-> {"PM2.5 trend"},
                      df_c |-> IF ColDtype(pm25_df, pm_year_col) = "number"
                               THEN SortValues(picked, pm_year_col)
                               ELSE picked]

RenderPm25 ==
    /\ pc = "page"
    /\ pc' = "shown"
    /\ IF IsNone(pm25_df)
       THEN view' = [page |-> "pm25", exception |-> "none",
                     messages |-> {"warning: The PM2.5 dataset was not found"}]
       ELSE IF PmYearColRaises(pm25_df)
       THEN view' = [page |-> "pm25", exception |-> "IndexError", messages |-> {}]
       ELSE IF PmValueCol(pm25_df) = <<>>
       THEN view' = [page |-> "pm25", exception |-> "none",
                     messages |-> {"error: Could not find a numeric PM2.5 column"}]
       ELSE \E selected_country \in
                  SelectboxChoices(ColUnique(pm25_df, PmCountryCol(pm25_df))) :
                view' = Pm25View(selected_country)
    /\ UNCHANGED <<base_file, pm25_file, base_df, pm25_df, metric_options>>

-----------------------------------------------------------------------------
(* Whole-program specification: every page, files present or missing, base
   schemas with and without the columns the pages look for *)

\* rows of the full AQI schema (country, aqi_category, aqi_value, pm25_aqi_value)
AppRowDomain ==
    { <<"USA", "Good", Num(10), Num(20)>>,
      <<"USA", NaS, Num(20), NaN>>,
      <<"India", "Good", NaN, Num(10)>> }

MapRawKinds == <<"object", "object", "number", "number">>

\* which columns of the full schema a base file has
AppColumnSets == { <<1, 2, 3, 4>>, <<2, 3, 4>>, <<1, 2>>, <<1, 4>> }

Project(seq, idx) == [j \in 1..Len(idx) |-> seq[idx[j]]]

AppBaseFile(idx, rows) ==
    [exists  |-> TRUE,
     columns |-> Project(MapRawColumns, idx),
     kinds   |-> Project(MapRawKinds, idx),
     rows    |-> [r \in 1..Len(rows) |-> Project(rows[r], idx)]]

AppBaseFiles ==
    {AppBaseFile(idx, rows) : idx \in AppColumnSets, rows \in SeqsUpTo(AppRowDomain, MaxAppRows)}

AppFixedBaseFiles ==
    { MissingFile,
      AppBaseFile(<<1, 2, 3, 4>>, << <<"USA", "Good", Num(10), Num(20)>> >>),
      AppBaseFile(<<2, 3, 4>>, << <<"USA", "Good", Num(10), Num(20)>> >>) }

PmFile(cols, kinds, rows) ==
    [exists |-> TRUE, columns |-> cols, kinds |-> kinds, rows |-> rows]

\* Header cells of the PM2.5 files
Raw ==
    [ Entity |-> <<"E","n","t","i","t","y">>,
      Country |-> <<"C","o","u","n","t","r","y">>,
      Year |-> <<"Y","e","a","r">>,
      Period |-> <<"P","e","r","i","o","d">>,
      Code |-> <<"C","o","d","e">>,
      Pm25 |-> <<"P","M","2",".","5"," ","(","u","g","/","m","3",")">> ]

PmVariants ==
    { MissingFile,
      Pm25SampleFile,
      PmFile(<<Raw.Country, Raw.Year, Raw.Pm25>>, <<"object", "number", "number">>,
             << <<"USA", Num(2011), Num(8)>>, <<"France", Num(2010), Num(9)>>,
                <<"USA", Num(2010), NaN>> >>),
      PmFile(<<Raw.Country, Raw.Year, Raw.Pm25>>, <<"object", "number", "number">>,
             << <<"France", NaN, Num(9)>>, <<NaS, Num(2010), Num(9)>> >>),
      PmFile(<<Raw.Entity, Raw.Period, Raw.Pm25>>, <<"object", "number", "number">>,
             << <<"USA", Num(2010), Num(9)>> >>),
      PmFile(<<Raw.Entity, Raw.Code, Raw.Pm25>>, <<"object", "object", "number">>,
             << <<"USA", "US", Num(9)>> >>),
      PmFile(<<Raw.Entity>>, <<"object">>, << <<"USA">> >>),
      PmFile(<<Raw.Pm25, Raw.Entity>>, <<"number", "object">>, << <<Num(9), "USA">> >>),
      PmFile(<<Raw.Entity, Raw.Code>>, <<"object", "object">>, << <<"USA", "US">> >>),
      PmFile(<<Raw.Entity, Raw.Year>>, <<"object", "number">>, << <<"USA", Num(2010)>> >>),
      PmFile(<<Raw.Entity, Raw.Year, Raw.Pm25>>, <<"object", "number", "number">>, <<>>) }

Init ==
    /\ \/ base_file \in AppBaseFiles /\ pm25_file \in {MissingFile, Pm25SampleFile}
       \/ base_file \in AppFixedBaseFiles /\ pm25_file \in PmVariants
    /\ InitScript

Next ==
    \/ LoadBase
    \/ LoadPm25
    \/ MetricOptions
    \/ RenderMap
    \/ RenderSummary
    \/ RenderCountry
    \/ RenderDeepDive
    \/ RenderDataLab
    \/ RenderPm25
    \/ Rerun

Spec == Init /\ [][Next]_vars

-----------------------------------------------------------------------------
(* Deep dive specification: a PM2.5 file of up to MaxPmRows rows, with missing
   years, missing countries and equal years, against base files that share
   countries with it, share none, or have no country column *)

\* (country, year, value) of a row of the PM2.5 file
PmRowDomain ==
    { <<"USA", Num(2010), Num(8)>>, <<"USA", Num(2011), Num(9)>>,
      <<"USA", Num(2011), Num(7)>>, <<"USA", NaN, Num(6)>>,
      <<"France", Num(2010), Num(9)>>, <<"France", Num(2011), NaN>>,
      <<NaS, Num(2011), Num(9)>> }

PmHeaders == { Pm25RawColumns, <<Raw.Country, Raw.Year, Raw.Pm25>> }

DeepDiveBaseFiles ==
    { AppBaseFile(<<1, 2, 3, 4>>, << <<"USA", "Good", Num(10), Num(20)>> >>),
      AppBaseFile(<<1, 2, 3, 4>>, << <<"USA", "Good", Num(10), Num(20)>>,
                                    <<"India", "Good", NaN, Num(10)>> >>),
      AppBaseFile(<<1, 2, 3, 4>>, << <<"India", "Good", NaN, Num(10)>> >>),
      AppBaseFile(<<2, 3, 4>>, << <<"USA", "Good", Num(10), Num(20)>> >>) }

InitDeepDive ==
    /\ base_file \in DeepDiveBaseFiles
    /\ \E cols \in PmHeaders, rows \in SeqsUpTo(PmRowDomain, MaxPmRows) :
         pm25_file = PmFile(cols, <<"object", "number", "number">>, rows)
    /\ InitScript

NextDeepDive == LoadBase \/ LoadPm25 \/ MetricOptions \/ RenderDeepDive \/ Rerun

SpecDeepDive == InitDeepDive /\ [][NextDeepDive]_vars

-----------------------------------------------------------------------------
(* Properties of the map page *)

MapShown == pc = "shown" /\ view.page = "map" /\ view.exception = "none"

\* the rows of df whose cell in column name satisfies nothing but "is row i of df"
RowIdx(df) == 1..Len(df.rows)

Cell(df, i, name) == df.rows[i][ColIdx(df, name)]

RECURSIVE SumOverIdx(_, _, _)
SumOverIdx(df, name, I) ==
    IF I = {} THEN 0
    ELSE LET i == CHOOSE j \in I : TRUE
         IN  Cell(df, i, name).n + SumOverIdx(df, name, I \ {i})

\* C1: with every category of the dataset selected, the map page computes what it
\* computes with no category filter (same filtered rows, same aggregate, same
\* messages), for every metric and threshold.
C1_FullCategorySetIsNoFilter ==
    (MapShown /\ view.selected_cats = <<ColUnique(base_df, Names.aqi_category)>>)
    => LET unfiltered == MapView(view.metric_label, <<>>, view.min_threshold)
       IN  /\ view.df_map = unfiltered.df_map
           /\ view.agg = unfiltered.agg
           /\ view.messages = unfiltered.messages

\* the category predicate as the page applies it to row i of base_df
PassesCategories(i) ==
    \/ view.selected_cats = <<>>
    \/ view.selected_cats[1] = {}
    \/ Cell(base_df, i, Names.aqi_category) \in view.selected_cats[1]

KeptRows == Range(view.df_map.rows)

\* C2 as stated: the threshold is applied to the chosen metric: every kept row has
\* metric >= threshold, and every row with metric >= threshold that passes the
\* category predicate is kept.
C2_ThresholdOnChosenMetric ==
    (MapShown /\ view.min_threshold # <<>>)
    => /\ \A i \in RowIdx(view.df_map) :
            RGe(Cell(view.df_map, i, view.metric_col), view.min_threshold[1])
       /\ \A i \in RowIdx(base_df) :
            (PassesCategories(i)
             /\ RGe(Cell(base_df, i, view.metric_col), view.min_threshold[1]))
            => base_df.rows[i] \in KeptRows

\* C2 amended: the threshold is applied to aqi_value whichever metric is chosen:
\* every kept row has aqi_value >= threshold, and every row with aqi_value >=
\* threshold that passes the category predicate is kept; when the dataset has no
\* aqi_value column there is no threshold.
C2_ThresholdOnOverallAqi ==
    MapShown
    => /\ (view.min_threshold # <<>>) = HasCol(base_df, Names.aqi_value)
       /\ view.min_threshold # <<>>
          => /\ \A i \in RowIdx(view.df_map) :
                  RGe(Cell(view.df_map, i, Names.aqi_value), view.min_threshold[1])
             /\ \A i \in RowIdx(base_df) :
                  (PassesCategories(i)
                   /\ RGe(Cell(base_df, i, Names.aqi_value), view.min_threshold[1]))
                  => base_df.rows[i] \in KeptRows

\* a pm25 metric below the threshold is kept because aqi_value passes
C2_Witness ==
    /\ MapShown
    /\ view.min_threshold # <<>>
    /\ view.metric_col = Names.pm25_aqi_value
    /\ \E i \in RowIdx(view.df_map) :
         /\ ~IsNaN(Cell(view.df_map, i, Names.pm25_aqi_value))
         /\ ~RGe(Cell(view.df_map, i, Names.pm25_aqi_value), view.min_threshold[1])
    /\ Len(view.df_map.rows) < Len(base_df.rows)

\* rows of the filtered frame of country c with a non-missing metric
PresentIdx(c) ==
    {i \in RowIdx(view.df_map) :
        /\ Cell(view.df_map, i, Names.country) = c
        /\ ~IsNaN(Cell(view.df_map, i, view.metric_col))}

GroupIdx(c) == {i \in RowIdx(view.df_map) : Cell(view.df_map, i, Names.country) = c}

\* C7: the mean of a group is the sum of its non-missing metric values divided by
\* their number: mean * count = sum, with the missing values in neither.
C7_MeanSkipsMissing ==
    (MapShown /\ view.agg # <<>>)
    => \A c \in DOMAIN view.agg[1] :
          /\ ~IsNaN(view.agg[1][c])
          /\ PresentIdx(c) # {}
          /\ view.agg[1][c].n * Cardinality(PresentIdx(c))
               = SumOverIdx(view.df_map, view.metric_col, PresentIdx(c)) * view.agg[1][c].d

\* a group with the metric values 10, missing, 20 aggregates to 15
C7_Witness ==
    /\ MapShown
    /\ view.agg # <<>>
    /\ \E c \in DOMAIN view.agg[1] :
         /\ view.agg[1][c] = Num(15)
         /\ Cardinality(GroupIdx(c)) = 3
         /\ {Cell(view.df_map, i, view.metric_col) : i \in GroupIdx(c)}
              = {Num(10), NaN, Num(20)}

\* C8: the aggregate has exactly the countries with a filtered row whose metric is
\* not missing, each once, with the mean of the metric over its filtered rows;
\* a country whose filtered rows all miss the metric is absent.
C8_OneEntryPerCountryWithData ==
    (MapShown /\ view.agg # <<>>)
    => /\ DOMAIN view.agg[1] =
            {c \in Countries : PresentIdx(c) # {}}
       /\ \A c \in DOMAIN view.agg[1] :
            view.agg[1][c] = Rat(SumOverIdx(view.df_map, view.metric_col, PresentIdx(c)),
                                 Cardinality(PresentIdx(c)))

\* one country with the metric values 10 and 20 aggregated to 15, and another
\* dropped because all its filtered rows miss the metric
C8_Witness ==
    /\ MapShown
    /\ view.agg # <<>>
    /\ \E c \in DOMAIN view.agg[1] :
         Cardinality(PresentIdx(c)) = 2 /\ view.agg[1][c] = Num(15)
    /\ \E c \in Countries :
         c \notin DOMAIN view.agg[1] /\ GroupIdx(c) # {} /\ PresentIdx(c) = {}

-----------------------------------------------------------------------------
(* Properties of schema resolution *)

BaseLoaded == pc \in {"load_pm25", "metric_options", "page", "shown"}

\* the column labels right after normalisation, before the rename
NormalisedBaseColumns ==
    [i \in 1..Len(base_file.columns) |-> NormaliseName(base_file.columns[i])]

\* C5: a column whose normalised name is already canonical keeps that name, and
\* applying the rename rules to the loaded frame once more changes no label.
C5_ResolutionIdempotent ==
    BaseLoaded
    => /\ \A i \in 1..Len(base_df.columns) :
            NormalisedBaseColumns[i] \in CanonicalNames
            => base_df.columns[i] = NormalisedBaseColumns[i]
       /\ RenameColumns(base_df).columns = base_df.columns

\* a load that kept a canonical column and relabelled another one
C5_Witness ==
    /\ BaseLoaded
    /\ \E i, j \in 1..Len(base_df.columns) :
         /\ NormalisedBaseColumns[i] \in CanonicalNames
         /\ base_df.columns[j] # NormalisedBaseColumns[j]
         /\ base_df.columns[j] \in CanonicalNames

\* the raw columns that resolve to canonical field k
MatchingRaw(k) ==
    {i \in 1..Len(base_file.columns) : RenameOne(NormalisedBaseColumns[i]) = k}

\* C6: when raw columns match a canonical field, exactly one loaded column carries
\* that name, and it is the first matching raw column.
C6_FirstMatchWins ==
    BaseLoaded
    => \A k \in CanonicalNames :
          MatchingRaw(k) # {}
          => {i \in 1..Len(base_df.columns) : base_df.columns[i] = k}
               = {CHOOSE i \in MatchingRaw(k) : \A j \in MatchingRaw(k) : i <= j}

\* the raw label with its case folded and every leading and trailing blank dropped
FoldedRaw(i) ==
    LET raw == base_file.columns[i]
        inner == {k \in 1..Len(raw) : raw[k] # " "}
        first == CHOOSE k \in inner : \A m \in inner : k <= m
        last == CHOOSE k \in inner : \A m \in inner : m <= k
    IN  IF inner = {} THEN <<>>
        ELSE [k \in 1..(1 + last - first) |-> LowerChar(raw[first + k - 1])]

\* C11: a raw column named "Country" in any case and with any leading or trailing
\* spaces, and the aliases entity and country_name, are loaded as `country`.
C11_CountryVariantsResolve ==
    BaseLoaded
    => \A i \in 1..Len(base_file.columns) :
          FoldedRaw(i) \in {Names.country, Strs.entity, Strs.country_name}
          => base_df.columns[i] = Names.country

\* a load that resolved a spaced or upper-case spelling and an alias
C11_Witness ==
    /\ BaseLoaded
    /\ \E i, j \in 1..Len(base_file.columns) :
         /\ base_file.columns[i] \in {<<"C","o","u","n","t","r","y"," ">>,
                                      <<" ","C","O","U","N","T","R","Y"," ">>}
         /\ base_df.columns[i] = Names.country
         /\ FoldedRaw(j) \in {Strs.entity, Strs.country_name}
         /\ base_df.columns[j] = Names.country

\* the fields the fallback is said to leave out
NonMetricNames == {Names.year, <<"c","o","d","e">>}

\* none of the six canonical metric columns is in the loaded frame
NoNamedMetric ==
    \A k \in {Names.aqi_value, Names.pm25_aqi_value, Names.pm10_aqi_value,
              Names.co_aqi_value, Names.no2_aqi_value, Names.ozone_aqi_value} :
        ~HasCol(base_df, k)

\* C12: when no named metric column is resolved, no metric option is the column
\* `year` or the column `code`.
C12_FallbackSkipsYearAndCode ==
    (pc = "page" /\ NoNamedMetric)
    => \A k \in 1..Len(metric_options) : metric_options[k].val \notin NonMetricNames

\* both module-level frames are loaded from files that exist
BothLoaded == pc \in {"metric_options", "page", "shown"} /\ ~IsNone(pm25_df)

\* no space, parenthesis, dot or upper-case letter is left in a loaded label
C13_CleanCharacters ==
    BothLoaded
    => \A i \in 1..Len(pm25_df.columns) : \A k \in 1..Len(pm25_df.columns[i]) :
          /\ pm25_df.columns[i][k] \notin {" ", "(", ")", "."}
          /\ \A u \in 1..26 : pm25_df.columns[i][k] # UpperChars[u]

\* the base loader normalises as the PM2.5 loader does: a label no rename rule
\* touches is the same in both frames
C13_SameInBothLoaders ==
    BothLoaded
    => \A i \in 1..Len(base_df.columns) :
          (base_file.columns[i] = pm25_file.columns[i]
             /\ RenameMapEntry(pm25_df.columns[i]) = <<>>)
          => base_df.columns[i] = pm25_df.columns[i]

\* normalising a loaded label once more changes nothing
C13_NormaliseIdempotent ==
    BothLoaded
    => \A i \in 1..Len(pm25_df.columns) :
          NormaliseName(pm25_df.columns[i]) = pm25_df.columns[i]

\* C13: both loaders normalise every column name the same way; the normalised
\* name has no space, '(', ')', '.' or upper-case letter, and normalising it again
\* changes nothing.
C13_NormalisedNames ==
    /\ C13_CleanCharacters
    /\ C13_SameInBothLoaders
    /\ C13_NormaliseIdempotent

NamedMetrics == {Names.aqi_value, Names.pm25_aqi_value, Names.pm10_aqi_value,
                 Names.co_aqi_value, Names.no2_aqi_value, Names.ozone_aqi_value}

OptionColumns == {metric_options[k].val : k \in 1..Len(metric_options)}

\* C15: every metric option maps to a column of the dataset; with a canonical
\* metric column present the options are the canonical metric columns present and
\* nothing else, the numeric columns being offered only when there is none; and
\* the map page's default metric is the overall AQI value whenever that column
\* exists.
C15_MetricOptionsSound ==
    pc = "page"
    => /\ \A c \in OptionColumns : HasCol(base_df, c)
       /\ ~NoNamedMetric => OptionColumns = {c \in NamedMetrics : HasCol(base_df, c)}
       /\ NoNamedMetric => OptionColumns = Range(NumericCols(base_df))
       /\ HasCol(base_df, Names.aqi_value)
          => /\ metric_options # <<>>
             /\ DefaultMetricLabel = Labels.overall
             /\ DictGet(metric_options, DefaultMetricLabel) = Names.aqi_value

\* options of a frame whose overall AQI column comes after a numeric column that
\* is no metric: one option, the overall AQI value, which is the default
C15_Witness ==
    /\ pc = "page"
    /\ Len(base_df.columns) = 2
    /\ base_df.columns[1] = Names.year
    /\ base_df.dtypes[1] = "number"
    /\ base_df.columns[2] = Names.aqi_value
    /\ Len(metric_options) = 1
    /\ DictGet(metric_options, DefaultMetricLabel) = Names.aqi_value

\* the fallback offered the numeric columns of a frame without a canonical metric
C15_FallbackReached ==
    /\ pc = "page"
    /\ NoNamedMetric
    /\ Len(metric_options) = 2

\* the pollutant substring rules in their fixed order
PollutantRuleOrder ==
    << [subs |-> {<<"p","m","2","5">>},                 target |-> Names.pm25_aqi_value],
       [subs |-> {<<"p","m","1","0">>},                 target |-> Names.pm10_aqi_value],
       [subs |-> {<<"n","o","2">>},                     target |-> Names.no2_aqi_value],
       [subs |-> {<<"o","z","o","n","e">>, <<"o","3">>}, target |-> Names.ozone_aqi_value],
       [subs |-> {<<"c","o">>},                         target |-> Names.co_aqi_value] >>

\* rule k of PollutantRuleOrder matches the normalised name c
PollutantRuleMatches(k, c) ==
    /\ \E sub \in PollutantRuleOrder[k].subs : Contains(sub, c)
    /\ Contains(Names.aqi_value, c)
    /\ (k = 5 => c # Names.aqi_value)

MatchingPollutantRules(c) ==
    {k \in 1..Len(PollutantRuleOrder) : PollutantRuleMatches(k, c)}

\* C16: a column that matches pollutant rules is named by the last matching rule
\* of the order pm25, pm10, no2, ozone/o3, co, and by that rule alone; so a column
\* containing "co" and "aqi_value" (other than aqi_value) becomes co_aqi_value even
\* when it matches another pollutant.
C16_LastPollutantRuleWins ==
    BaseLoaded
    => \A i \in 1..Len(base_df.columns) :
          LET c == NormalisedBaseColumns[i]
              M == MatchingPollutantRules(c)
          IN  /\ M # {}
                 => base_df.columns[i]
                      = PollutantRuleOrder[CHOOSE k \in M : \A m \in M : m <= k].target
              /\ (Contains(<<"c","o">>, c) /\ Contains(Names.aqi_value, c)
                    /\ c # Names.aqi_value)
                 => base_df.columns[i] = Names.co_aqi_value

\* a load with one column matching pm25 and co and one matching pm10 and ozone
C16_Witness ==
    /\ BaseLoaded
    /\ \E i, j \in 1..Len(base_df.columns) :
         /\ MatchingPollutantRules(NormalisedBaseColumns[i]) = {1, 5}
         /\ base_df.columns[i] = Names.co_aqi_value
         /\ MatchingPollutantRules(NormalisedBaseColumns[j]) = {2, 4}
         /\ base_df.columns[j] = Names.ozone_aqi_value

-----------------------------------------------------------------------------
(* Properties of the whole program *)

Shown == pc = "shown"

PmHasSecondColumn == HasCol(pm25_df, Names.year) \/ Len(pm25_df.columns) >= 2

\* an expected field or column is absent for the page that was rendered
FieldAbsent ==
    CASE view.page = "map"       -> metric_options = <<>> \/ ~HasCol(base_df, Names.country)
      [] view.page = "summary"   -> metric_options = <<>>
      [] view.page = "country"   -> ~HasCol(base_df, Names.country)
      [] view.page = "data_lab"  -> NumericCols(base_df) = <<>>
      [] view.page = "deep_dive" ->
            ~IsNone(pm25_df)
            /\ (~PmHasSecondColumn \/ ~HasCol(base_df, Names.country)
                \/ (PmHasSecondColumn /\ PmValueCol(pm25_df) = <<>>))
      [] view.page = "pm25" ->
            ~IsNone(pm25_df)
            /\ (~PmHasSecondColumn \/ (PmHasSecondColumn /\ PmValueCol(pm25_df) = <<>>))
      [] OTHER -> FALSE

\* C3: on every page, when an expected field or column is absent the render ends
\* without an uncaught exception and shows a message.
C3_MissingFieldShowsMessage ==
    (Shown /\ FieldAbsent) => (view.exception = "none" /\ view.messages # {})

PmWarning == "warning: The PM2.5 dataset was not found"

\* C4: a missing input file never ends the script run; with the PM2.5 file missing
\* the two pages that need it show the warning, and every page is rendered
\* without an exception raised by the missing file.
C4_MissingFileDegrades ==
    /\ pc # "aborted"
    /\ (Shown /\ ~pm25_file.exists /\ view.page \in {"deep_dive", "pm25"})
       => (view.exception = "none" /\ view.messages = {PmWarning})

C9_DataLabCaseReached ==
    /\ Shown
    /\ view.page = "data_lab"
    /\ "df_q" \in DOMAIN view
    /\ view.df_q.rows = <<>>
    /\ view.df_clean.rows # <<>>
    /\ view.q_type = "top_n"

\* C10: once loaded, base_df and pm25_df stay what the loaders returned for the
\* files, through every render of every page with every widget setting.
C10_SourceFramesUnchanged ==
    /\ BaseLoaded => base_df = load_base_data(base_file)
    /\ pc \in {"metric_options", "page", "shown"} => pm25_df = load_pm25_data(pm25_file)

\* a Data Lab render that filled a missing cell and added a scaled column to its
\* working frame
C10_Witness ==
    /\ Shown
    /\ view.page = "data_lab"
    /\ "df_clean" \in DOMAIN view
    /\ view.missing_strategy \in {"mean", "median"}
    /\ view.norm_choice = "MinMax"
    /\ Len(view.df_clean.columns) = Len(base_df.columns) + 1
    /\ \E r \in 1..Len(base_df.rows) : \E j \in 1..Len(base_df.columns) :
         /\ base_df.dtypes[j] = "number"
         /\ IsNaN(base_df.rows[r][j])
         /\ r <= Len(view.df_clean.rows)
         /\ ~IsNaN(view.df_clean.rows[r][j])

\* the map page and the Data Lab went through their filters with a category
\* multiselect on the page
MapFiltered == Shown /\ view.page = "map" /\ "df_map" \in DOMAIN view /\ view.selected_cats # <<>>

LabFiltered == Shown /\ view.page = "data_lab" /\ "df_q" \in DOMAIN view /\ view.selected_q_cats # <<>>

CategoriesOf(df) == Range(ColCells(df, Names.aqi_category))

\* C14 as stated: for every selected category set S, the empty one included, every
\* record left by the category filter has its category in S.
C14_KeptCategoriesInSelection ==
    /\ MapFiltered => CategoriesOf(view.df_map) \subseteq view.selected_cats[1]
    /\ LabFiltered => CategoriesOf(view.df_q) \subseteq view.selected_q_cats[1]

\* the records of df_clean that pass the country and the range filter of the lab
LabPassesOtherFilters(row) ==
    /\ (view.selected_countries # <<>> /\ view.selected_countries[1] # {})
       => row[ColIdx(view.df_clean, Names.country)] \in view.selected_countries[1]
    /\ RGe(row[ColIdx(view.df_clean, view.base_metric)], view.val[1])
    /\ RLe(row[ColIdx(view.df_clean, view.base_metric)], view.val[2])

\* C14 amended: for every non-empty selected set S every record left has its
\* category in S; an empty selection applies no category filter: every record
\* that passes the other filters of the page is left, whatever its category.
C14_NonEmptySelectionFilters ==
    /\ (MapFiltered /\ view.selected_cats[1] # {})
       => CategoriesOf(view.df_map) \subseteq view.selected_cats[1]
    /\ (LabFiltered /\ view.selected_q_cats[1] # {})
       => CategoriesOf(view.df_q) \subseteq view.selected_q_cats[1]
    /\ (MapFiltered /\ view.selected_cats[1] = {})
       => \A i \in RowIdx(base_df) :
             (view.min_threshold = <<>>
              \/ RGe(Cell(base_df, i, Names.aqi_value), view.min_threshold[1]))
             => base_df.rows[i] \in Range(view.df_map.rows)
    /\ (LabFiltered /\ view.selected_q_cats[1] = {})
       => \A r \in 1..Len(view.df_clean.rows) :
             LabPassesOtherFilters(view.df_clean.rows[r])
             => view.df_clean.rows[r] \in Range(view.df_q.rows)

\* a non-empty selection on the map page dropped a record of another category and
\* kept one of a selected category
C14_Witness ==
    /\ MapFiltered
    /\ view.selected_cats[1] # {}
    /\ view.df_map.rows # <<>>
    /\ \E i \in RowIdx(base_df) :
         /\ Cell(base_df, i, Names.aqi_category) \notin view.selected_cats[1]
         /\ (view.min_threshold = <<>>
             \/ RGe(Cell(base_df, i, Names.aqi_value), view.min_threshold[1]))

\* an empty selection in the Data Lab left records of the dataset's categories
C14_EmptySelectionReached ==
    /\ LabFiltered
    /\ view.selected_q_cats[1] = {}
    /\ view.df_q.rows # <<>>

-----------------------------------------------------------------------------
(* Properties of the Country Deep Dive page *)

\* the right column of the page showed the latest figure
LatestShown ==
    /\ Shown
    /\ view.page = "deep_dive"
    /\ view.exception = "none"
    /\ "right" \in DOMAIN view
    /\ "latest_year" \in DOMAIN view.right

\* the records of the selected country in the loaded PM2.5 frame
SelectedPmRows ==
    {r \in 1..Len(pm25_df.rows) :
        pm25_df.rows[r][ColIdx(pm25_df, PmCountryCol(pm25_df))] = view.selected_country[1]}

PmYearOf(r) == pm25_df.rows[r][ColIdx(pm25_df, PmYearCol(pm25_df))]

PmValueOf(r) == pm25_df.rows[r][ColIdx(pm25_df, PmValueCol(pm25_df)[1])]

\* C17: the latest PM2.5 figure is the value of a record of the selected country
\* whose year is the year displayed, and no record of that country has a greater
\* year.
C17_LatestIsGreatestYear ==
    LatestShown
    => /\ \E r \in SelectedPmRows :
            /\ PmYearOf(r) = view.right.latest_year
            /\ PmValueOf(r) = view.right.latest_val
       /\ \A r \in SelectedPmRows : ~RGt(PmYearOf(r), view.right.latest_year)

\* the latest record is not the last one of the file: an older record of the
\* country follows it
C17_Witness ==
    /\ LatestShown
    /\ \E r, q \in SelectedPmRows :
         /\ r < q
         /\ PmYearOf(r) = view.right.latest_year
         /\ RGt(PmYearOf(r), PmYearOf(q))

\* the page got as far as the country selectbox
CountriesOffered == Shown /\ view.page = "deep_dive" /\ "common_countries" \in DOMAIN view

\* the non-missing countries of the two loaded frames
PmCountrySet ==
    {pm25_df.rows[r][ColIdx(pm25_df, PmCountryCol(pm25_df))] : r \in 1..Len(pm25_df.rows)} \ {NaS}

BaseCountrySet ==
    IF HasCol(base_df, Names.country)
    THEN {Cell(base_df, r, Names.country) : r \in RowIdx(base_df)} \ {NaS}
    ELSE {}

\* C18: every country offered on the deep dive page occurs in the PM2.5 dataset;
\* the offered countries are exactly the shared ones when the two datasets share
\* a country, and exactly the PM2.5 countries otherwise.
C18_OfferedCountries ==
    CountriesOffered
    => /\ view.common_countries \subseteq PmCountrySet
       /\ BaseCountrySet \cap PmCountrySet # {}
          => view.common_countries = BaseCountrySet \cap PmCountrySet
       /\ BaseCountrySet \cap PmCountrySet = {}
          => view.common_countries = PmCountrySet

\* the datasets share one country; each has a country the other lacks
C18_Witness ==
    /\ CountriesOffered
    /\ view.common_countries = {"USA"}
    /\ "France" \in PmCountrySet
    /\ "India" \in BaseCountrySet

\* no shared country: the PM2.5 countries are offered
C18_NoSharedCountryReached ==
    /\ CountriesOffered
    /\ BaseCountrySet = {"India"}
    /\ view.common_countries = {"USA", "France"}

-----------------------------------------------------------------------------
(* Properties of the Data Lab *)

LabAnswered == Shown /\ view.page = "data_lab" /\ "df_q" \in DOMAIN view

\* the filtered frame the same settings give with normalisation "None"
LabPlainQuestionFrame ==
    LabQuestionFilter(
        LabPercentileFilter(
            LabCleanRef(view.missing_strategy, view.base_metric, "None").df,
            view.base_metric, view.p),
        view.base_metric, view.selected_countries, view.selected_q_cats, view.val)

C19_ZScoreCaseReached ==
    /\ LabAnswered
    /\ view.norm_choice = "Z"
    /\ Len(view.df_clean.columns) = Len(base_df.columns) + 1
    /\ view.df_q.rows # <<>>
    /\ view.q_type = "compare"
    /\ view.answer # <<>>

====
